---- MODULE Spec2Model ----
(***************************************************************************)
(* The Allotment Routing Table of art.go: a multibit trie of tableNodes,   *)
(* each with an allotment array r, a child array n, a reference count and  *)
(* a pointer to the parent's slot, under Insert, Delete, Lookup and Clone. *)
(*                                                                         *)
(* Go values are modelled as follows.                                      *)
(*   - A Route is the tuple <<ip, bits, val>>: its IPPrefix (a netaddr IP  *)
(*     as its four As4 bytes, most significant first, and the prefix       *)
(*     length) and the client metadata; the nil Route is <<>>.             *)
(*   - The heap is `nodes` (tableNode objects by address; address 0 is the *)
(*     nil pointer) and `rmem` (the backing arrays of the r slices, by     *)
(*     address): a slice value copied by assignment shares its array.      *)
(*   - A **tableNode into an n array is the pair <<node, index>>.          *)
(* TLC integers are 32-bit signed, so a uint32 read from the address is    *)
(* kept as its bytes until it has been masked to the stride.               *)
(***************************************************************************)
EXTENDS Integers, Sequences, FiniteSets, TLC

VARIABLES nodes, rmem, tables, stored, last, hist, order, cow, budget, panicked

vars == <<nodes, rmem, tables, stored, last, hist, order, cow, budget, panicked>>

(***************************************************************************)
(* Configuration                                                           *)
(***************************************************************************)
maxLevel == 16

\* newIPv4Table_8: NewTable([]int{8, 8, 8, 8})
Strides == <<8, 8, 8, 8>>

\* the number of calls of one run, for each specification
MaxOps == 5
MaxDefaultOps == 6
MaxCloneOps == 4
MaxCowOps == 4
MaxOrderOps == 6

\* the longest of the stride schedules tried, the two of maxLevel and of
\* maxLevel + 1 strides apart
MaxStrides == 4
MaxDeepOps == 4
MaxSingleOps == 4
MaxAllotOps == 3
MaxWideOps == 4
MaxHostOps == 4
MaxBitsLevel == 16

\* the largest address tried with a stride of 32 bits
MaxAddr == 3

nil == <<>>
NilNode == 0

RECURSIVE SumTo(_, _)
SumTo(sl, k) == IF k = 0 THEN 0 ELSE SumTo(sl, k - 1) + sl[k]

\* NewTable: w is the sum of the strides
TableW(sl) == SumTo(sl, Len(sl))

(***************************************************************************)
(* uint32 arithmetic                                                       *)
(***************************************************************************)
\* 1 << k in uint32
Shl1(k) == IF k >= 32 \/ k < 0 THEN 0 ELSE 2 ^ k

\* a >> k in uint32 (the shift count is itself converted to uint32), for a
\* below 2^31: nothing is left of it from k = 31 on
Shr(a, k) == IF k >= 31 \/ k < 0 THEN 0 ELSE a \div (2 ^ k)

RECURSIVE BitOr(_, _)
BitOr(a, b) ==
    IF a = 0 THEN b
    ELSE IF b = 0 THEN a
    ELSE (IF a % 2 = 1 \/ b % 2 = 1 THEN 1 ELSE 0) + 2 * BitOr(a \div 2, b \div 2)

baseIndex(width, addr, prefixLen) ==
    BitOr(Shr(addr, width - prefixLen), Shl1(prefixLen))

\* fringeIndex one bit short of the stride
fringeIndexShort(width, addr) == baseIndex(width, addr, width - 1)

fringeIndex(width, addr) == baseIndex(width, addr, width)

\* v & ((1 << bits) - 1) for the uint32 v whose big-endian bytes are word
RECURSIVE MaskWord(_, _)
MaskWord(word, bits) ==
    IF bits <= 0 \/ word = <<>> THEN 0
    ELSE IF bits >= 8
         THEN word[Len(word)] + 256 * MaskWord(SubSeq(word, 1, Len(word) - 1), bits - 8)
         ELSE word[Len(word)] % (2 ^ bits)

getBits4(byteOffset, bits, from) ==
    IF byteOffset > 4 THEN 0
    ELSE LET src == SubSeq(from, 1, 4 - byteOffset)
         IN  IF Len(src) = 0 THEN 0
             ELSE MaskWord(SubSeq(src, Len(src) - (IF Len(src) < 4 THEN Len(src) ELSE 4) + 1,
                                  Len(src)), bits)

getBits16(byteOffset, bits, from) ==
    IF byteOffset > 16 THEN 0
    ELSE LET src == SubSeq(from, 1, 16 - byteOffset)
         IN  IF Len(src) = 0 THEN 0
             ELSE MaskWord(SubSeq(src, Len(src) - (IF Len(src) < 4 THEN Len(src) ELSE 4) + 1,
                                  Len(src)), bits)

\* a getBits closure that skips one byte more from the right
getBitsSkipsByte(w, ss, sl, ipv4) == getBits4((w - ss) \div 8 + 1, sl, ipv4)

\* the getBits closure of insert, delete and searchMultiLevel, for an IPv4 address
getBits(w, ss, sl, ipv4) == getBits4((w - ss) \div 8, sl, ipv4)

\* the same closure for an IPv6 address
getBitsIPv6(w, ss, sl, ipv6) == getBits16((w - ss) \div 8, sl, ipv6)

(***************************************************************************)
(* Routes                                                                  *)
(***************************************************************************)
IPPrefix(r) == <<r[1], r[2]>>
IP(ipp) == ipp[1]
Bits(ipp) == ipp[2]

\* testRoute.Equals, route4b.Equals: same dynamic type, same prefix and value;
\* the receiver a is not nil
Equals(a, b) == a = b

(***************************************************************************)
(* tableNode                                                               *)
(***************************************************************************)
Slots(stride) == 0 .. (Shl1(stride + 1) - 1)

newTableNode(stride, rp) ==
    [r |-> rp,
     n |-> [i \in Slots(stride) |-> NilNode],
     ref |-> 0,
     parentPtr |-> nil]

newRouteArray(stride) == [i \in Slots(stride) |-> nil]

\* the first address that is in use neither for a node nor for an r array
Fresh(m) ==
    CHOOSE id \in 1 .. (Cardinality(DOMAIN m.nodes \cup DOMAIN m.rmem) + 1) :
        id \notin (DOMAIN m.nodes \cup DOMAIN m.rmem)

\* x.r as the contents of its backing array
R(m, x) == m.rmem[m.nodes[x].r]

\* allot without the test of x.r[b] against q: it takes every slot below b
RECURSIVE allotOverShadowing(_, _, _, _, _)
allotOverShadowing(rr, smallestFringeIndex, b, q, r) ==
    LET r1 == [rr EXCEPT ![b] = r]
    IN  IF b >= smallestFringeIndex
        THEN [r |-> r1, panic |-> FALSE]
        ELSE LET left == allotOverShadowing(r1, smallestFringeIndex, 2 * b, q, r)
             IN  IF left.panic THEN left
                 ELSE allotOverShadowing(left.r, smallestFringeIndex,
                                         2 * b + 1, q, r)

\* allot that goes down to the left children only
RECURSIVE allotLeftOnly(_, _, _, _, _)
allotLeftOnly(rr, smallestFringeIndex, b, q, r) ==
    IF rr[b] = nil /\ q # nil
    THEN [r |-> rr, panic |-> TRUE]
    ELSE IF (rr[b] = nil /\ q = nil) \/ (rr[b] # nil /\ Equals(rr[b], q))
    THEN LET r1 == [rr EXCEPT ![b] = r]
         IN  IF b >= smallestFringeIndex
             THEN [r |-> r1, panic |-> FALSE]
             ELSE allotLeftOnly(r1, smallestFringeIndex, 2 * b, q, r)
    ELSE [r |-> rr, panic |-> FALSE]

\* allot that leaves a slot that differs from q alone but goes on below it
RECURSIVE allotThroughShadow(_, _, _, _, _)
allotThroughShadow(rr, smallestFringeIndex, b, q, r) ==
    IF rr[b] = nil /\ q # nil
    THEN [r |-> rr, panic |-> TRUE]
    ELSE LET r1 == IF (rr[b] = nil /\ q = nil) \/ (rr[b] # nil /\ Equals(rr[b], q))
                   THEN [rr EXCEPT ![b] = r]
                   ELSE rr
         IN  IF b >= smallestFringeIndex
             THEN [r |-> r1, panic |-> FALSE]
             ELSE LET left == allotThroughShadow(r1, smallestFringeIndex, 2 * b, q, r)
                  IN  IF left.panic THEN left
                      ELSE allotThroughShadow(left.r, smallestFringeIndex,
                                              2 * b + 1, q, r)

RECURSIVE allot(_, _, _, _, _)
allot(rr, smallestFringeIndex, b, q, r) ==
    IF rr[b] = nil /\ q # nil
    THEN [r |-> rr, panic |-> TRUE]          \* x.r[b].Equals on a nil interface
    ELSE IF (rr[b] = nil /\ q = nil) \/ (rr[b] # nil /\ Equals(rr[b], q))
    THEN LET r1 == [rr EXCEPT ![b] = r]
         IN  IF b >= smallestFringeIndex
             THEN [r |-> r1, panic |-> FALSE]
             ELSE LET left == allot(r1, smallestFringeIndex, 2 * b, q, r)
                  IN  IF left.panic THEN left
                      ELSE allot(left.r, smallestFringeIndex, 2 * b + 1, q, r)
    ELSE [r |-> rr, panic |-> FALSE]

\* insertSingle that allots over empty slots only, whatever x.r[b] holds
insertSingleOverEmpty(m, x, w, addr, prefix, r) ==
    LET b == baseIndex(w, addr, prefix)
        xb == R(m, x)[b]
    IN  IF xb # nil /\ IPPrefix(r) = IPPrefix(xb)
        THEN [m |-> m, ok |-> FALSE, panic |-> FALSE]
        ELSE LET a == allot(R(m, x), Shl1(w), b, nil, r)
             IN  [m |-> [m EXCEPT !.rmem[m.nodes[x].r] = a.r],
                  ok |-> ~a.panic, panic |-> a.panic]

insertSingle(m, x, w, addr, prefix, r) ==
    LET b == baseIndex(w, addr, prefix)
        xb == R(m, x)[b]
    IN  IF xb # nil /\ IPPrefix(r) = IPPrefix(xb)
        THEN [m |-> m, ok |-> FALSE, panic |-> FALSE]
        ELSE LET a == allot(R(m, x), Shl1(w), b, xb, r)
             IN  [m |-> [m EXCEPT !.rmem[m.nodes[x].r] = a.r],
                  ok |-> ~a.panic, panic |-> a.panic]

\* the loop of insert leaving a stride only when the prefix ends before its last bit
RECURSIVE insertLoopPastStride(_, _, _, _, _, _, _)
insertLoopPastStride(m, x, w, sl, r, level, ss0) ==
    IF level + 1 > Len(sl)
    THEN [m |-> m, ok |-> FALSE, panic |-> TRUE]     \* sl[level] out of range
    ELSE
    LET ipp == IPPrefix(r)
        ss == ss0 + sl[level + 1]
        s == getBits(w, ss, sl[level + 1], IP(ipp))
    IN  IF Bits(ipp) < ss
        THEN LET res == insertSingle(m, x, sl[level + 1], s, Bits(ipp) - (ss - sl[level + 1]), r)
             IN  IF res.ok
                 THEN [res EXCEPT !.m.nodes[x].ref = @ + 1]
                 ELSE res
        ELSE LET i == fringeIndex(sl[level + 1], s)
             IN  IF m.nodes[x].n[i] = NilNode
                 THEN IF level + 2 > Len(sl)
                      THEN [m |-> m, ok |-> FALSE, panic |-> TRUE]  \* sl[level+1]
                      ELSE LET child == Fresh(m)
                               m1 == [nodes |->
                                        (child :> [newTableNode(sl[level + 2], child)
                                                     EXCEPT !.parentPtr = <<x, i>>])
                                        @@ [m.nodes EXCEPT ![x].n[i] = child,
                                                           ![x].ref = @ + 1],
                                      rmem |->
                                        (child :> newRouteArray(sl[level + 2])) @@ m.rmem]
                           IN  insertLoopPastStride(m1, child, w, sl, r, level + 1, ss)
                 ELSE insertLoopPastStride(m, m.nodes[x].n[i], w, sl, r, level + 1, ss)

\* the loop of insert making a child of the width of the first stride
RECURSIVE insertLoopChildOfFirstWidth(_, _, _, _, _, _, _)
insertLoopChildOfFirstWidth(m, x, w, sl, r, level, ss0) ==
    IF level + 1 > Len(sl)
    THEN [m |-> m, ok |-> FALSE, panic |-> TRUE]     \* sl[level] out of range
    ELSE
    LET ipp == IPPrefix(r)
        ss == ss0 + sl[level + 1]
        s == getBits(w, ss, sl[level + 1], IP(ipp))
    IN  IF Bits(ipp) <= ss
        THEN LET res == insertSingle(m, x, sl[level + 1], s, Bits(ipp) - (ss - sl[level + 1]), r)
             IN  IF res.ok
                 THEN [res EXCEPT !.m.nodes[x].ref = @ + 1]
                 ELSE res
        ELSE LET i == fringeIndex(sl[level + 1], s)
             IN  IF m.nodes[x].n[i] = NilNode
                 THEN IF level + 2 > Len(sl)
                      THEN [m |-> m, ok |-> FALSE, panic |-> TRUE]  \* sl[level+1]
                      ELSE LET child == Fresh(m)
                               m1 == [nodes |->
                                        (child :> [newTableNode(sl[1], child)
                                                     EXCEPT !.parentPtr = <<x, i>>])
                                        @@ [m.nodes EXCEPT ![x].n[i] = child,
                                                           ![x].ref = @ + 1],
                                      rmem |->
                                        (child :> newRouteArray(sl[1])) @@ m.rmem]
                           IN  insertLoopChildOfFirstWidth(m1, child, w, sl, r, level + 1, ss)
                 ELSE insertLoopChildOfFirstWidth(m, m.nodes[x].n[i], w, sl, r, level + 1, ss)

RECURSIVE insertLoop(_, _, _, _, _, _, _)
insertLoop(m, x, w, sl, r, level, ss0) ==
    IF level + 1 > Len(sl)
    THEN [m |-> m, ok |-> FALSE, panic |-> TRUE]     \* sl[level] out of range
    ELSE
    LET ipp == IPPrefix(r)
        ss == ss0 + sl[level + 1]
        s == getBits(w, ss, sl[level + 1], IP(ipp))
    IN  IF Bits(ipp) <= ss
        THEN LET res == insertSingle(m, x, sl[level + 1], s, Bits(ipp) - (ss - sl[level + 1]), r)
             IN  IF res.ok
                 THEN [res EXCEPT !.m.nodes[x].ref = @ + 1]
                 ELSE res
        ELSE LET i == fringeIndex(sl[level + 1], s)
             IN  IF m.nodes[x].n[i] = NilNode
                 THEN IF level + 2 > Len(sl)
                      THEN [m |-> m, ok |-> FALSE, panic |-> TRUE]  \* sl[level+1]
                      ELSE LET child == Fresh(m)
                               m1 == [nodes |->
                                        (child :> [newTableNode(sl[level + 2], child)
                                                     EXCEPT !.parentPtr = <<x, i>>])
                                        @@ [m.nodes EXCEPT ![x].n[i] = child,
                                                           ![x].ref = @ + 1],
                                      rmem |->
                                        (child :> newRouteArray(sl[level + 2])) @@ m.rmem]
                           IN  insertLoop(m1, child, w, sl, r, level + 1, ss)
                 ELSE insertLoop(m, m.nodes[x].n[i], w, sl, r, level + 1, ss)

insert(m, x0, w, sl, r) ==
    IF Bits(IPPrefix(r)) = 0
    THEN IF R(m, x0)[1] # nil
         THEN [m |-> m, ok |-> FALSE, panic |-> FALSE]
         ELSE [m |-> [m EXCEPT !.rmem[m.nodes[x0].r][1] = r],
               ok |-> TRUE, panic |-> FALSE]
    ELSE insertLoop(m, x0, w, sl, r, 0, 0)

RECURSIVE searchLoop(_, _, _, _, _, _, _, _)
searchLoop(m, x, w, sl, ip, lmr, level, ss0) ==
    IF level + 1 > Len(sl)
    THEN [found |-> nil, panic |-> TRUE]             \* sl[level] out of range
    ELSE
    LET s == sl[level + 1]
        ss == ss0 + s
        i == fringeIndex(s, getBits(w, ss, s, ip))
    IN  IF m.nodes[x].n[i] # NilNode
        THEN searchLoop(m, m.nodes[x].n[i], w, sl, ip,
                        IF R(m, x)[i] # nil THEN R(m, x)[i] ELSE lmr,
                        level + 1, ss)
        ELSE IF R(m, x)[i] # nil
             THEN [found |-> R(m, x)[i], panic |-> FALSE]
             ELSE [found |-> lmr, panic |-> FALSE]

searchMultiLevel(m, x0, w, sl, ip) ==
    searchLoop(m, x0, w, sl, ip, R(m, x0)[1], 0, 0)

\* deleteSingle that empties the slots of the route, whatever x.r[b>>1] holds
deleteSingleToEmpty(m, x, w, addr, prefix) ==
    LET b == baseIndex(w, addr, prefix)
        prev == R(m, x)[b]
    IN  IF prev = nil
        THEN [m |-> m, deleted |-> nil, ok |-> FALSE, panic |-> FALSE]
        ELSE LET a == allot(R(m, x), Shl1(w), b, prev, nil)
             IN  [m |-> [m EXCEPT !.rmem[m.nodes[x].r] = a.r],
                  deleted |-> prev, ok |-> ~a.panic, panic |-> a.panic]

deleteSingle(m, x, w, addr, prefix) ==
    LET b == baseIndex(w, addr, prefix)
        prev == R(m, x)[b]
    IN  IF prev = nil
        THEN [m |-> m, deleted |-> nil, ok |-> FALSE, panic |-> FALSE]
        ELSE LET a == allot(R(m, x), Shl1(w), b, prev, R(m, x)[Shr(b, 1)])
             IN  [m |-> [m EXCEPT !.rmem[m.nodes[x].r] = a.r],
                  deleted |-> prev, ok |-> ~a.panic, panic |-> a.panic]

\* free that forgets the parent's pointer and clears only its own
freeKeepsParentSlot(m, x) ==
    IF m.nodes[x].parentPtr # nil
    THEN [m EXCEPT !.nodes[x].parentPtr = nil]
    ELSE m

free(m, x) ==
    LET pp == m.nodes[x].parentPtr
    IN  IF pp # nil
        THEN [[m EXCEPT !.nodes[pp[1]].n[pp[2]] = NilNode]
                 EXCEPT !.nodes[x].parentPtr = nil]
        ELSE m

\* the loop that frees the arrays left with no reference
RECURSIVE freeLoop(_, _, _, _)
freeLoop(m, x, xsv, level) ==
    IF level > 0 /\ m.nodes[x].ref = 0
    THEN LET m1 == free(m, x)
             px == xsv[level]                        \* xsv[level-1], 0-based
         IN  freeLoop([m1 EXCEPT !.nodes[px].ref = @ - 1], px, xsv, level - 1)
    ELSE m

RECURSIVE deleteLoop(_, _, _, _, _, _, _, _)
deleteLoop(m, x, w, sl, ipp, xsv, level, ss0) ==
    IF level + 1 > Len(sl)
    THEN [m |-> m, deleted |-> nil, ok |-> FALSE, panic |-> TRUE]
    ELSE
    LET ss == ss0 + sl[level + 1]
        s == getBits(w, ss, sl[level + 1], IP(ipp))
    IN  IF Bits(ipp) <= ss
        THEN LET res == deleteSingle(m, x, sl[level + 1], s, Bits(ipp) - (ss - sl[level + 1]))
             IN  IF ~res.ok
                 THEN [res EXCEPT !.deleted = nil]
                 ELSE [res EXCEPT !.m =
                         freeLoop([res.m EXCEPT !.nodes[x].ref = @ - 1], x, xsv, level)]
        ELSE LET i == fringeIndex(sl[level + 1], s)
             IN  IF m.nodes[x].n[i] = NilNode
                 THEN [m |-> m, deleted |-> nil, ok |-> FALSE, panic |-> FALSE]
                 ELSE deleteLoop(m, m.nodes[x].n[i], w, sl, ipp,
                                 [xsv EXCEPT ![level + 1] = x], level + 1, ss)

\* delete that counts the default route in root.ref, as it does other routes
deleteDefaultDropsRef(m, x0, w, sl, ipp) ==
    IF Bits(ipp) = 0
    THEN IF R(m, x0)[1] = nil
         THEN [m |-> m, deleted |-> nil, ok |-> FALSE, panic |-> FALSE]
         ELSE [m |-> [m EXCEPT !.rmem[m.nodes[x0].r][1] = nil,
                               !.nodes[x0].ref = @ - 1],
               deleted |-> R(m, x0)[1], ok |-> TRUE, panic |-> FALSE]
    ELSE deleteLoop(m, x0, w, sl, ipp,
                    [k \in 1 .. maxLevel |-> IF k = 1 THEN x0 ELSE NilNode], 0, 0)

delete(m, x0, w, sl, ipp) ==
    IF Bits(ipp) = 0
    THEN IF R(m, x0)[1] = nil
         THEN [m |-> m, deleted |-> nil, ok |-> FALSE, panic |-> FALSE]
         ELSE [m |-> [m EXCEPT !.rmem[m.nodes[x0].r][1] = nil],
               deleted |-> R(m, x0)[1], ok |-> TRUE, panic |-> FALSE]
    ELSE deleteLoop(m, x0, w, sl, ipp,
                    [k \in 1 .. maxLevel |-> IF k = 1 THEN x0 ELSE NilNode], 0, 0)


\* a freed tableNode is garbage once no n slot and no parentPtr leads to it
Succ(m, id) ==
    ({m.nodes[id].n[i] : i \in DOMAIN m.nodes[id].n} \ {NilNode})
        \cup (IF m.nodes[id].parentPtr = nil THEN {} ELSE {m.nodes[id].parentPtr[1]})

RECURSIVE Reach(_, _, _)
Reach(m, seen, frontier) ==
    IF frontier = {} THEN seen
    ELSE Reach(m, seen \cup frontier,
               UNION {Succ(m, id) : id \in frontier} \ (seen \cup frontier))

Collect(m, roots) ==
    LET live == Reach(m, {}, roots \ {NilNode})
    IN  [nodes |-> [id \in live |-> m.nodes[id]],
         rmem |-> [a \in {m.nodes[id].r : id \in live} |-> m.rmem[a]]]

\* the indices of the non-nil entries of x.n, in the order range visits them
RECURSIVE Ascending(_)
Ascending(S) ==
    IF S = {} THEN <<>>
    ELSE LET lo == CHOOSE i \in S : \A j \in S : i <= j
         IN  <<lo>> \o Ascending(S \ {lo})

Children(m, x) == {i \in DOMAIN m.nodes[x].n : m.nodes[x].n[i] # NilNode}

\* tableNode.clone: the copy takes the r slice and the parentPtr of x as they
\* are, and a new n array whose entries are the clones of the children
RECURSIVE clone(_, _)
RECURSIVE cloneRange(_, _, _, _)
\* clone that leaves ref of the copy at its zero value
cloneWithoutRef(m, x) ==
    LET x2 == Fresh(m)
        m1 == [m EXCEPT !.nodes =
                 (x2 :> [r |-> m.nodes[x].r,
                         n |-> [i \in DOMAIN m.nodes[x].n |-> NilNode],
                         ref |-> 0,
                         parentPtr |-> m.nodes[x].parentPtr]) @@ m.nodes]
    IN  [m |-> cloneRange(m1, x, x2, Ascending(Children(m, x))), id |-> x2]

clone(m, x) ==
    LET x2 == Fresh(m)
        m1 == [m EXCEPT !.nodes =
                 (x2 :> [r |-> m.nodes[x].r,
                         n |-> [i \in DOMAIN m.nodes[x].n |-> NilNode],
                         ref |-> m.nodes[x].ref,
                         parentPtr |-> m.nodes[x].parentPtr]) @@ m.nodes]
    IN  [m |-> cloneRange(m1, x, x2, Ascending(Children(m, x))), id |-> x2]

cloneRange(m, x, x2, is) ==
    IF is = <<>> THEN m
    ELSE LET c == clone(m, m.nodes[x].n[Head(is)])
         IN  cloneRange([c.m EXCEPT !.nodes[x2].n[Head(is)] = c.id], x, x2, Tail(is))

\* a table as reflect.DeepEqual sees it from its root: r, n and ref of every node
RECURSIVE Shape(_, _)
Shape(m, x) ==
    [r |-> R(m, x),
     ref |-> m.nodes[x].ref,
     n |-> {<<i, Shape(m, m.nodes[x].n[i])>> : i \in Children(m, x)}]

(***************************************************************************)
(* What a table is documented to hold: the routes inserted and not since   *)
(* deleted, one per prefix, and the longest of them that covers an address *)
(***************************************************************************)
Clamp8(k) == IF k < 0 THEN 0 ELSE IF k > 8 THEN 8 ELSE k

\* the address with the bits after the first `bits` cleared
MaskIP(ip, bits) ==
    [k \in 1 .. Len(ip) |->
        LET keep == Clamp8(bits - 8 * (k - 1))
        IN  (ip[k] \div (2 ^ (8 - keep))) * (2 ^ (8 - keep))]

Canon(ipp) == <<MaskIP(IP(ipp), Bits(ipp)), Bits(ipp)>>

Covers(ipp, a) == MaskIP(a, Bits(ipp)) = MaskIP(IP(ipp), Bits(ipp))

SamePrefix(S, ipp) == {q \in S : Canon(IPPrefix(q)) = Canon(ipp)}

StoredFor(S, ipp) ==
    IF SamePrefix(S, ipp) = {} THEN nil ELSE CHOOSE q \in SamePrefix(S, ipp) : TRUE

LongestMatch(S, a) ==
    LET cov == {q \in S : Covers(IPPrefix(q), a)}
    IN  IF cov = {} THEN nil
        ELSE CHOOSE q \in cov : \A q2 \in cov : q2[2] <= q[2]

(***************************************************************************)
(* The calls of a run                                                      *)
(***************************************************************************)
IP4(a, b, c, d) == <<a, b, c, d>>

Routes ==
    { <<IP4(0, 0, 0, 0), 0, 1>>, <<IP4(0, 0, 0, 0), 0, 2>>,
      <<IP4(0, 0, 0, 0), 1, 1>>,
      <<IP4(10, 0, 0, 0), 8, 1>>,
      <<IP4(10, 0, 0, 0), 9, 1>>, <<IP4(10, 0, 0, 0), 9, 2>>,
      <<IP4(10, 0, 0, 0), 10, 1>>,
      <<IP4(10, 0, 0, 0), 17, 1>> }

Prefixes == {IPPrefix(r) : r \in Routes}

Addrs == { IP4(10, 0, 0, 0), IP4(10, 0, 128, 0), IP4(10, 64, 0, 0),
           IP4(10, 128, 0, 0), IP4(11, 0, 0, 0), IP4(128, 0, 0, 0) }

Mem == [nodes |-> nodes, rmem |-> rmem]

\* the heap after the call
MemNext == [nodes |-> nodes', rmem |-> rmem']

Roots == {tables[tb] : tb \in DOMAIN tables}

\* the rules the documentation of NewTable gives for strides
ValidStrides(strides) ==
    /\ Len(strides) <= maxLevel
    /\ \A i \in 1 .. Len(strides) - 1 : strides[i] % 8 = 0
    /\ \A i \in 1 .. Len(strides) : strides[i] <= 32
    /\ TableW(strides) \in {32, 128}

\* NewTable: the panics of its loop and of the test against maxLevel, then
\* strides[0], which is out of range for no strides; the root is a new node of
\* the width of the first stride
NewTable(m, strides) ==
    IF \/ \E i \in 1 .. Len(strides) : strides[i] % 8 # 0 /\ i # Len(strides)
       \/ \E i \in 1 .. Len(strides) : strides[i] > 32
       \/ Len(strides) > maxLevel
       \/ Len(strides) = 0
    THEN [m |-> m, id |-> NilNode, panic |-> TRUE]
    ELSE LET root == Fresh(m)
         IN  [m |-> [nodes |-> (root :> newTableNode(strides[1], root)) @@ m.nodes,
                     rmem |-> (root :> newRouteArray(strides[1])) @@ m.rmem],
              id |-> root, panic |-> FALSE]

EmptyMem == [nodes |-> <<>>, rmem |-> <<>>]

NoHist == [run |-> "inserts", left |-> {}, undo |-> "none", r |-> nil, pre |-> nil]

Start(calls) ==
    /\ stored = [t |-> {}, c |-> {}]
    /\ last = [op |-> "NewTable", tb |-> "t", arg |-> nil, res |-> nil,
               ok |-> TRUE, had |-> nil]
    /\ hist = NoHist
    /\ order = [t |-> <<>>, c |-> <<>>]
    /\ cow = nil
    /\ budget = calls
    /\ panicked = FALSE

\* one table
InitOne(calls) ==
    /\ \E t \in {NewTable(EmptyMem, Strides)} :
          /\ nodes = t.m.nodes
          /\ rmem = t.m.rmem
          /\ tables = [t |-> t.id, c |-> NilNode]
    /\ Start(calls)

\* two tables of the same strides
InitTwo(calls) ==
    /\ \E t \in {NewTable(EmptyMem, Strides)} :
       \E c \in {NewTable(t.m, Strides)} :
          /\ nodes = c.m.nodes
          /\ rmem = c.m.rmem
          /\ tables = [t |-> t.id, c |-> c.id]
    /\ Start(calls)

Init == InitOne(MaxOps)

\* The history of the calls made on table t:
\*   run   "inserts" while every call that changes t was an Insert, returning
\*         true, of a prefix not stored; "deletes" once these are followed by
\*         Deletes of the prefixes inserted; "mixed" after any other call
\*   left  the prefixes inserted whose Delete is still to come
\*   undo  "inserted" after such an Insert of r into the table of shape pre,
\*         "undone" after the Delete of r's prefix that follows it
HistInsert(r, had, ok) ==
    LET pure == hist.run = "inserts" /\ ok /\ had = nil
    IN  [run |-> IF pure THEN "inserts" ELSE "mixed",
         left |-> IF pure THEN hist.left \cup {Canon(IPPrefix(r))} ELSE {},
         undo |-> IF pure THEN "inserted" ELSE "none",
         r |-> IF pure THEN r ELSE nil,
         pre |-> IF pure THEN Shape(Mem, tables["t"]) ELSE nil]

HistDelete(ipp) ==
    LET paired == hist.run # "mixed" /\ Canon(ipp) \in hist.left
        undone == hist.undo = "inserted" /\ Canon(ipp) = Canon(IPPrefix(hist.r))
    IN  [run |-> IF paired THEN "deletes" ELSE "mixed",
         left |-> IF paired THEN hist.left \ {Canon(ipp)} ELSE {},
         undo |-> IF undone THEN "undone" ELSE "none",
         r |-> IF undone THEN hist.r ELSE nil,
         pre |-> IF undone THEN hist.pre ELSE nil]

\* Table.Insert on a table of strides sl
InsertAt(sl, tb, r) ==
    /\ ~panicked /\ budget > 0 /\ tables[tb] # NilNode
    /\ \E res \in {insert(Mem, tables[tb], TableW(sl), sl, r)} :
       \E m2 \in {Collect(res.m, Roots)} :
           /\ nodes' = m2.nodes
           /\ rmem' = m2.rmem
           /\ panicked' = res.panic
           /\ stored' = IF res.ok
                        THEN [stored EXCEPT ![tb] = (@ \ SamePrefix(@, IPPrefix(r))) \cup {r}]
                        ELSE stored
           /\ last' = [op |-> "Insert", tb |-> tb, arg |-> r, res |-> nil,
                       ok |-> res.ok, had |-> StoredFor(stored[tb], IPPrefix(r))]
           /\ hist' = IF tb = "t"
                      THEN HistInsert(r, StoredFor(stored[tb], IPPrefix(r)), res.ok)
                      ELSE hist
    /\ budget' = budget - 1
    /\ UNCHANGED <<tables, cow>>

InsertCall(tb, r) == InsertAt(Strides, tb, r)

Insert(tb, r) == InsertCall(tb, r) /\ UNCHANGED order

\* Delete that lets go of a root left with no reference, as of any other node
DeleteAtFreesRoot(sl, tb, ipp) ==
    /\ ~panicked /\ budget > 0 /\ tables[tb] # NilNode
    /\ \E res \in {delete(Mem, tables[tb], TableW(sl), sl, ipp)} :
       \E m2 \in {Collect(res.m, Roots)} :
           /\ nodes' = m2.nodes
           /\ rmem' = m2.rmem
           /\ panicked' = res.panic
           /\ tables' = IF res.ok /\ res.m.nodes[tables[tb]].ref = 0
                        THEN [tables EXCEPT ![tb] = NilNode]
                        ELSE tables
           /\ stored' = IF res.ok
                        THEN [stored EXCEPT ![tb] = @ \ SamePrefix(@, ipp)]
                        ELSE stored
           /\ last' = [op |-> "Delete", tb |-> tb, arg |-> ipp, res |-> res.deleted,
                       ok |-> res.ok, had |-> StoredFor(stored[tb], ipp)]
    /\ hist' = IF tb = "t" THEN HistDelete(ipp) ELSE hist
    /\ budget' = budget - 1
    /\ UNCHANGED <<order, cow>>

\* Table.Delete on a table of strides sl
DeleteAt(sl, tb, ipp) ==
    /\ ~panicked /\ budget > 0 /\ tables[tb] # NilNode
    /\ \E res \in {delete(Mem, tables[tb], TableW(sl), sl, ipp)} :
       \E m2 \in {Collect(res.m, Roots)} :
           /\ nodes' = m2.nodes
           /\ rmem' = m2.rmem
           /\ panicked' = res.panic
           /\ stored' = IF res.ok
                        THEN [stored EXCEPT ![tb] = @ \ SamePrefix(@, ipp)]
                        ELSE stored
           /\ last' = [op |-> "Delete", tb |-> tb, arg |-> ipp, res |-> res.deleted,
                       ok |-> res.ok, had |-> StoredFor(stored[tb], ipp)]
    /\ hist' = IF tb = "t" THEN HistDelete(ipp) ELSE hist
    /\ budget' = budget - 1
    /\ UNCHANGED <<tables, order, cow>>

Delete(tb, ipp) == DeleteAt(Strides, tb, ipp)

\* Lookup that keeps the route it found in the fringe slot it started from
LookupKeepsFound(tb, ip) ==
    /\ ~panicked /\ budget > 0 /\ tables[tb] # NilNode
    /\ \E res \in {searchMultiLevel(Mem, tables[tb], TableW(Strides), Strides, ip)} :
           /\ panicked' = res.panic
           /\ last' = [op |-> "Lookup", tb |-> tb, arg |-> ip, res |-> res.found,
                       ok |-> res.found # nil, had |-> LongestMatch(stored[tb], ip)]
           /\ rmem' = [rmem EXCEPT ![nodes[tables[tb]].r]
                                      [fringeIndex(Strides[1],
                                          getBits(TableW(Strides), Strides[1], Strides[1], ip))]
                                      = res.found]
    /\ budget' = budget - 1
    /\ UNCHANGED <<nodes, tables, stored, hist, order, cow>>

Lookup(tb, ip) ==
    /\ ~panicked /\ budget > 0 /\ tables[tb] # NilNode
    /\ \E res \in {searchMultiLevel(Mem, tables[tb], TableW(Strides), Strides, ip)} :
           /\ panicked' = res.panic
           /\ last' = [op |-> "Lookup", tb |-> tb, arg |-> ip, res |-> res.found,
                       ok |-> res.found # nil, had |-> LongestMatch(stored[tb], ip)]
    /\ budget' = budget - 1
    /\ UNCHANGED <<nodes, rmem, tables, stored, hist, order, cow>>

\* Insert, into one of two tables, of a route not yet inserted into it, with
\* the order of the successful Inserts kept
InsertInOrder(tb, r) ==
    /\ r \notin {order[tb][k] : k \in 1 .. Len(order[tb])}
    /\ InsertCall(tb, r)
    /\ order' = IF last'.ok THEN [order EXCEPT ![tb] = Append(@, r)] ELSE order

Clone ==
    /\ ~panicked /\ budget > 0 /\ tables["c"] = NilNode
    /\ \E res \in {clone(Mem, tables["t"])} :
           /\ nodes' = res.m.nodes
           /\ rmem' = res.m.rmem
           /\ tables' = [tables EXCEPT !["c"] = res.id]
    /\ stored' = [stored EXCEPT !["c"] = stored["t"]]
    /\ last' = [op |-> "Clone", tb |-> "t", arg |-> nil, res |-> nil,
                ok |-> TRUE, had |-> nil]
    /\ cow' = [ip \in Addrs |->
                 searchMultiLevel(Mem, tables["t"], TableW(Strides), Strides, ip).found]
    /\ budget' = budget - 1
    /\ UNCHANGED <<hist, order, panicked>>

Next ==
    \/ \E r \in Routes : Insert("t", r)
    \/ \E ipp \in Prefixes : Delete("t", ipp)
    \/ \E ip \in Addrs : Lookup("t", ip)

Spec == Init /\ [][Next]_vars

\* the default route, a prefix of length 1 and the addresses they cover
DefaultRoutes ==
    { <<IP4(0, 0, 0, 0), 0, 1>>, <<IP4(0, 0, 0, 0), 0, 2>>,
      <<IP4(0, 0, 0, 0), 1, 1>>, <<IP4(10, 0, 0, 0), 9, 1>> }

DefaultAddrs == { IP4(10, 0, 0, 0), IP4(128, 0, 0, 0) }

InitDefault == InitOne(MaxDefaultOps)

NextDefault ==
    \/ \E r \in DefaultRoutes : Insert("t", r)
    \/ \E r \in DefaultRoutes : Delete("t", IPPrefix(r))
    \/ \E ip \in DefaultAddrs : Lookup("t", ip)

SpecDefault == InitDefault /\ [][NextDefault]_vars

\* a table and its clone, both in use
CloneRoutes == { <<IP4(0, 0, 0, 0), 1, 1>>, <<IP4(10, 0, 0, 0), 9, 1>> }

CloneAddrs == { IP4(10, 0, 0, 0), IP4(11, 0, 0, 0) }

InitClone == InitOne(MaxCloneOps)

NextClone ==
    \/ \E tb \in {"t", "c"} : \E r \in CloneRoutes : Insert(tb, r)
    \/ \E tb \in {"t", "c"} : \E r \in CloneRoutes : Delete(tb, IPPrefix(r))
    \/ \E tb \in {"t", "c"} : \E ip \in CloneAddrs : Lookup(tb, ip)
    \/ Clone

SpecClone == InitClone /\ [][NextClone]_vars

\* copy on write: the table is built, then cloned; from then on the writer
\* calls Insert and Delete on the clone and the readers Lookup on the original
InitCow == InitOne(MaxCowOps)

NextCow ==
    \/ tables["c"] = NilNode /\ \E r \in CloneRoutes : Insert("t", r)
    \/ Clone
    \/ \E r \in CloneRoutes : Insert("c", r)
    \/ \E r \in CloneRoutes : Delete("c", IPPrefix(r))
    \/ \E ip \in CloneAddrs : Lookup("t", ip)

SpecCow == InitCow /\ [][NextCow]_vars

\* the same routes inserted into two new tables, in any two orders
OrderRoutes ==
    { <<IP4(0, 0, 0, 0), 1, 1>>, <<IP4(10, 0, 0, 0), 8, 1>>,
      <<IP4(10, 0, 0, 0), 9, 1>>, <<IP4(10, 0, 0, 0), 10, 1>> }

InitOrder == InitTwo(MaxOrderOps)

NextOrder ==
    \/ \E r \in OrderRoutes : InsertInOrder("t", r)
    \/ \E r \in OrderRoutes : InsertInOrder("c", r)

SpecOrder == InitOrder /\ [][NextOrder]_vars

\* NewTable called with a stride schedule
StrideChoices == {4, 8, 16, 40}

Schedules ==
    UNION {[1 .. n -> StrideChoices] : n \in 0 .. MaxStrides}
        \cup {[k \in 1 .. maxLevel |-> 8], [k \in 1 .. maxLevel + 1 |-> 8]}

InitNewTable ==
    /\ nodes = EmptyMem.nodes
    /\ rmem = EmptyMem.rmem
    /\ tables = [t |-> NilNode, c |-> NilNode]
    /\ stored = [t |-> {}, c |-> {}]
    /\ \E strides \in Schedules :
          last = [op |-> "strides", tb |-> "t", arg |-> strides, res |-> nil,
                  ok |-> TRUE, had |-> nil]
    /\ hist = NoHist
    /\ order = [t |-> <<>>, c |-> <<>>]
    /\ cow = nil
    /\ budget = 1
    /\ panicked = FALSE

NewTableCall ==
    /\ ~panicked /\ budget > 0 /\ last.op = "strides"
    /\ \E res \in {NewTable(Mem, last.arg)} :
           /\ nodes' = res.m.nodes
           /\ rmem' = res.m.rmem
           /\ tables' = [tables EXCEPT !["t"] = res.id]
           /\ panicked' = res.panic
           /\ last' = [last EXCEPT !.op = "NewTable", !.ok = ~res.panic]
    /\ budget' = budget - 1
    /\ UNCHANGED <<stored, hist, order, cow>>

NextNewTable == NewTableCall

SpecNewTable == InitNewTable /\ [][NextNewTable]_vars

\* prefixes that end in the last two strides
DeepRoutes ==
    { <<IP4(10, 0, 0, 0), 24, 1>>, <<IP4(10, 0, 0, 0), 25, 1>>,
      <<IP4(10, 0, 0, 1), 32, 1>> }

DeepAddrs == { IP4(10, 0, 0, 1), IP4(10, 0, 0, 128) }

InitDeep == InitOne(MaxDeepOps)

NextDeep ==
    \/ \E r \in DeepRoutes : Insert("t", r)
    \/ \E r \in DeepRoutes : Delete("t", IPPrefix(r))
    \/ \E ip \in DeepAddrs : Lookup("t", ip)

SpecDeep == InitDeep /\ [][NextDeep]_vars

\* the single-level table of the tests, of one stride of 4 bits, and the
\* routes route4b{a, l} of the paper's examples
SingleStrides == <<4>>

route4b(a, l) == <<IP4(0, 0, 0, a), l, 1>>

Routes4b == { route4b(12, 2), route4b(14, 3), route4b(8, 1), route4b(0, 1) }

InitSingle ==
    /\ \E t \in {NewTable(EmptyMem, SingleStrides)} :
          /\ nodes = t.m.nodes
          /\ rmem = t.m.rmem
          /\ tables = [t |-> t.id, c |-> NilNode]
    /\ Start(MaxSingleOps)

\* Insert of a route not yet inserted, with the order of the Inserts kept
InsertSingleLevel(r) ==
    /\ r \notin {order["t"][k] : k \in 1 .. Len(order["t"])}
    /\ InsertAt(SingleStrides, "t", r)
    /\ order' = IF last'.ok THEN [order EXCEPT !["t"] = Append(@, r)] ELSE order

DeleteSingleLevel(ipp) == DeleteAt(SingleStrides, "t", ipp)

NextSingle ==
    \/ \E r \in Routes4b : InsertSingleLevel(r)
    \/ \E r \in Routes4b : DeleteSingleLevel(IPPrefix(r))

SpecSingle == InitSingle /\ [][NextSingle]_vars

\* x.allot(1 << w, b, q, r) on the root of the single-level table, for the
\* calls that insertSingle, deleteSingle and allot itself make: x.r[b] is nil
\* only where q is
AllotCall(b, q, r) ==
    /\ ~panicked /\ budget > 0
    /\ ~(R(Mem, tables["t"])[b] = nil /\ q # nil)
    /\ \E res \in {allot(R(Mem, tables["t"]), Shl1(SingleStrides[1]), b, q, r)} :
           /\ rmem' = [rmem EXCEPT ![nodes[tables["t"]].r] = res.r]
           /\ panicked' = res.panic
           /\ last' = [op |-> "allot", tb |-> "t", arg |-> <<b, q, r>>,
                       res |-> R(Mem, tables["t"]), ok |-> ~res.panic, had |-> nil]
    /\ budget' = 0
    /\ UNCHANGED <<nodes, tables, stored, hist, order, cow>>

InitAllot ==
    /\ \E t \in {NewTable(EmptyMem, SingleStrides)} :
          /\ nodes = t.m.nodes
          /\ rmem = t.m.rmem
          /\ tables = [t |-> t.id, c |-> NilNode]
    /\ Start(MaxAllotOps)

NextAllot ==
    \/ \E r \in Routes4b : InsertSingleLevel(r)
    \/ \E r \in Routes4b : DeleteSingleLevel(IPPrefix(r))
    \/ \E b \in 1 .. Shl1(SingleStrides[1] + 1) - 1 :
       \E q \in Routes4b \cup {nil} : \E r \in Routes4b \cup {nil} :
           AllotCall(b, q, r)

SpecAllot == InitAllot /\ [][NextAllot]_vars

\* baseIndex and fringeIndex called with a stride width that NewTable
\* allows, a prefix length of the stride and an address of the stride's bits
\* (1 << 31 is more than an integer here holds: a prefix length of 31 is left
\* out, and so are the addresses from 2^31 on)
Widths == {1, 4, 8, 32}

IndexArgs ==
    {<<w, addr, plen>> \in Widths \X (0 .. 255) \X (0 .. 32) :
        /\ plen <= w /\ plen # 31
        /\ IF w < 8 THEN addr < Shl1(w)
           ELSE addr <= MaxAddr \/ (w = 8 /\ addr >= 255 - MaxAddr)}

InitIndex ==
    /\ nodes = EmptyMem.nodes
    /\ rmem = EmptyMem.rmem
    /\ tables = [t |-> NilNode, c |-> NilNode]
    /\ stored = [t |-> {}, c |-> {}]
    /\ \E args \in IndexArgs :
          last = [op |-> "args", tb |-> "t", arg |-> args, res |-> nil,
                  ok |-> TRUE, had |-> nil]
    /\ hist = NoHist
    /\ order = [t |-> <<>>, c |-> <<>>]
    /\ cow = nil
    /\ budget = 1
    /\ panicked = FALSE

BaseIndexCall ==
    /\ budget > 0 /\ last.op = "args"
    /\ last' = [last EXCEPT !.op = "baseIndex",
                            !.res = baseIndex(last.arg[1], last.arg[2], last.arg[3])]
    /\ budget' = budget - 1
    /\ UNCHANGED <<nodes, rmem, tables, stored, hist, order, cow, panicked>>

FringeIndexCall ==
    /\ budget > 0 /\ last.op = "args" /\ last.arg[3] = last.arg[1]
    /\ last' = [last EXCEPT !.op = "fringeIndex",
                            !.res = fringeIndex(last.arg[1], last.arg[2])]
    /\ budget' = budget - 1
    /\ UNCHANGED <<nodes, rmem, tables, stored, hist, order, cow, panicked>>

NextIndex == BaseIndexCall \/ FringeIndexCall

SpecIndex == InitIndex /\ [][NextIndex]_vars

\* a table whose strides differ: NewTable takes a stride of 0 that is not the
\* last, 0 being a multiple of 8, and gives the node of that level two slots
WideStrides == <<8, 8, 8, 0, 8>>

WideRoutes ==
    { <<IP4(10, 0, 0, 0), 9, 1>>, <<IP4(10, 0, 0, 0), 24, 1>>,
      <<IP4(10, 0, 0, 0), 25, 1>>, <<IP4(10, 0, 0, 1), 32, 1>> }

InitWide ==
    /\ \E t \in {NewTable(EmptyMem, WideStrides)} :
          /\ nodes = t.m.nodes
          /\ rmem = t.m.rmem
          /\ tables = [t |-> t.id, c |-> NilNode]
    /\ Start(MaxWideOps)

NextWide ==
    \/ \E r \in WideRoutes : InsertAt(WideStrides, "t", r) /\ UNCHANGED order
    \/ \E r \in WideRoutes : DeleteAt(WideStrides, "t", IPPrefix(r))

SpecWide == InitWide /\ [][NextWide]_vars

\* routes of one prefix whose addresses differ beyond the prefix length
HostRoutes ==
    { <<IP4(10, 0, 0, 0), 9, 1>>, <<IP4(10, 1, 0, 0), 9, 1>>,
      <<IP4(10, 0, 0, 0), 10, 1>>, <<IP4(10, 0, 0, 1), 10, 1>> }

HostAddrs == { IP4(10, 0, 0, 0), IP4(10, 1, 0, 0) }

InitHost == InitOne(MaxHostOps)

NextHost ==
    \/ \E r \in HostRoutes : Insert("t", r)
    \/ \E r \in HostRoutes : Delete("t", IPPrefix(r))
    \/ \E ip \in HostAddrs : Lookup("t", ip)

SpecHost == InitHost /\ [][NextHost]_vars

\* stride schedules of multiples of 8 that sum to 32 and to 128, addresses
\* of both families, and a level of the schedule
Schedules4 ==
    { <<8, 8, 8, 8>>, <<16, 16>>, <<8, 24>>, <<24, 8>>, <<8, 16, 8>>,
      <<16, 8, 8>>, <<8, 8, 16>>, <<32>>, <<8, 0, 24>> }

Schedules16 ==
    { <<8, 8, 8, 8, 8, 8, 8, 8, 8, 8, 8, 8, 8, 8, 8, 8>>,
      <<16, 16, 16, 16, 16, 16, 16, 16>>,
      <<32, 32, 32, 32>>,
      <<24, 24, 24, 24, 32>>,
      <<8, 16, 24, 32, 8, 16, 24>> }

Addrs4 == { IP4(10, 0, 128, 255), IP4(127, 255, 0, 1), IP4(1, 2, 3, 4),
            IP4(200, 100, 129, 7) }

Addrs16 ==
    { <<32, 255, 13, 184, 127, 255, 0, 200, 1, 130, 3, 4, 16, 254, 255, 255>>,
      <<1, 2, 3, 4, 5, 6, 7, 8, 9, 10, 11, 12, 13, 14, 15, 16>> }

\* the stride of level k - 1 starts at byte SumTo(sl, k - 1) / 8 + 1; its
\* value is kept below 2^31
Below2p31(sl, k, ip) == sl[k] < 32 \/ ip[SumTo(sl, k - 1) \div 8 + 1] < 128

BitsArgs ==
    {a \in (Schedules4 \X (1 .. MaxBitsLevel) \X Addrs4)
              \cup (Schedules16 \X (1 .. MaxBitsLevel) \X Addrs16) :
        a[2] <= Len(a[1]) /\ Below2p31(a[1], a[2], a[3])}

InitBits ==
    /\ nodes = EmptyMem.nodes
    /\ rmem = EmptyMem.rmem
    /\ tables = [t |-> NilNode, c |-> NilNode]
    /\ stored = [t |-> {}, c |-> {}]
    /\ \E args \in BitsArgs :
          last = [op |-> "args", tb |-> "t", arg |-> args, res |-> nil,
                  ok |-> TRUE, had |-> nil]
    /\ hist = NoHist
    /\ order = [t |-> <<>>, c |-> <<>>]
    /\ cow = nil
    /\ budget = 1
    /\ panicked = FALSE

\* the call getBits(ss, sl[level]) of the loops, ss being the sum of the
\* strides up to the level
GetBits4Call ==
    /\ budget > 0 /\ last.op = "args" /\ Len(last.arg[3]) = 4
    /\ last' = [last EXCEPT !.op = "getBits4",
                            !.res = getBits(TableW(last.arg[1]),
                                            SumTo(last.arg[1], last.arg[2]),
                                            last.arg[1][last.arg[2]], last.arg[3])]
    /\ budget' = budget - 1
    /\ UNCHANGED <<nodes, rmem, tables, stored, hist, order, cow, panicked>>

GetBits16Call ==
    /\ budget > 0 /\ last.op = "args" /\ Len(last.arg[3]) = 16
    /\ last' = [last EXCEPT !.op = "getBits16",
                            !.res = getBitsIPv6(TableW(last.arg[1]),
                                                SumTo(last.arg[1], last.arg[2]),
                                                last.arg[1][last.arg[2]], last.arg[3])]
    /\ budget' = budget - 1
    /\ UNCHANGED <<nodes, rmem, tables, stored, hist, order, cow, panicked>>

NextBits == GetBits4Call \/ GetBits16Call

SpecBits == InitBits /\ [][NextBits]_vars

(***************************************************************************)
(* Properties of Lookup, Insert and Delete                                 *)
(***************************************************************************)
Root == tables["t"]

\* C1: after any calls of Insert and Delete, Lookup(a) returns the stored
\* route with the longest prefix covering a, and (nil, false) exactly when no
\* stored prefix covers a.
C1_LookupIsLongestMatch ==
    (last.op = "Lookup" /\ last.tb = "t")
        => (last.res = last.had /\ last.ok = (last.had # nil))

\* C2: Delete of a prefix that is not stored returns (nil, false) and leaves
\* r, n and ref of every node as they were.
C2_AbsentDeleteChangesNothing ==
    [][(last'.op = "Delete" /\ last'.had = nil)
          => (last'.res = nil /\ ~last'.ok /\ nodes' = nodes /\ rmem' = rmem)]_vars

\* C3: Insert of a route whose prefix (address and length) is that of a stored
\* route returns false and leaves the table as it was, whatever its metadata.
C3_DuplicateInsertChangesNothing ==
    [][(last'.op = "Insert" /\ last'.had # nil /\ IPPrefix(last'.had) = IPPrefix(last'.arg))
          => (~last'.ok /\ nodes' = nodes /\ rmem' = rmem)]_vars

\* C4: when Delete(p) returns (r, true), r is the route that was stored for
\* p, and a Delete(p) repeated at once returns (nil, false).
C4_DeleteReturnsStoredRoute ==
    (last.op = "Delete" /\ last.tb = "t" /\ last.ok)
        => /\ last.had # nil
           /\ last.res = last.had
           /\ ~delete(Mem, Root, TableW(Strides), Strides, last.arg).ok

\* C5: from a table built by Inserts alone, Insert(r) of a prefix not stored
\* followed by Delete of r's prefix gives back a table of the same shape.
C5_InsertDeleteRestoresTable ==
    hist.undo = "undone" => Shape(Mem, Root) = hist.pre

OnlyRoot(m, x) == Children(m, x) = {}

\* C8: after successful Inserts of distinct prefixes and then a Delete of each
\* of them, in any order, the root has no child and ref 0.
C8_AllDeletedLeavesEmptyRoot ==
    (hist.run = "deletes" /\ hist.left = {})
        => (OnlyRoot(Mem, Root) /\ nodes[Root].ref = 0)

C8_Witness ==
    /\ hist.run = "deletes" /\ hist.left = {}
    /\ last.op = "Delete" /\ last.ok /\ Bits(last.arg) > Strides[1]
    /\ budget <= MaxOps - 4

\* C10: a default route inserted where none was stored is put in root.r[1]
\* with result true, and while it is stored Lookup returns it for every
\* address that no stored prefix of length at least 1 covers.
C10_DefaultRoute ==
    /\ (last.op = "Insert" /\ last.tb = "t" /\ last.arg[2] = 0 /\ last.had = nil)
          => (last.ok /\ R(Mem, Root)[1] = last.arg)
    /\ (last.op = "Lookup" /\ last.tb = "t" /\ last.had # nil /\ last.had[2] = 0)
          => last.res = last.had

Answers(m, x) ==
    [ip \in Addrs |-> searchMultiLevel(m, x, TableW(Strides), Strides, ip).found]

Other(tb) == IF tb = "t" THEN "c" ELSE "t"

\* C6: after c = t.Clone(), Insert and Delete on either table leave every
\* Lookup result and r, n and ref of every node of the other as they were.
C6_CloneIsolation ==
    [][(tables["c"] # NilNode /\ last'.op \in {"Insert", "Delete"})
          => /\ Shape(MemNext, tables[Other(last'.tb)]) = Shape(Mem, tables[Other(last'.tb)])
             /\ Answers(MemNext, tables[Other(last'.tb)]) = Answers(Mem, tables[Other(last'.tb)])]_vars

\* C7: while the writer calls Insert and Delete on the clone, every Lookup on
\* the original returns what it returned when the clone was made.
C7_ReadersSeeSnapshot ==
    (cow # nil /\ last.op = "Lookup" /\ last.tb = "t") => last.res = cow[last.arg]

ToSet(seq) == {seq[k] : k \in 1 .. Len(seq)}

\* C9: the same routes, of distinct prefixes, inserted into two empty tables
\* in two orders give the same Lookup result for every address.
C9_OrderIndependentLookup ==
    (ToSet(order["t"]) = ToSet(order["c"]))
        => Answers(Mem, tables["t"]) = Answers(Mem, tables["c"])

C9_Witness ==
    /\ Len(order["t"]) >= 3
    /\ order["t"] # order["c"]
    /\ ToSet(order["t"]) = ToSet(order["c"])
    /\ \E ip \in Addrs : Answers(Mem, tables["t"])[ip] # nil

(***************************************************************************)
(* The default route, construction and Clone                               *)
(***************************************************************************)
\* C11: Delete of the prefix of length 0 returns (nil, false) and changes
\* nothing when root.r[1] is empty; otherwise it returns the stored default
\* route and empties root.r[1], with ref and n of every node as they were.
C11_DeleteDefault ==
    [][(last'.op = "Delete" /\ last'.tb = "t" /\ Bits(last'.arg) = 0)
          => IF R(Mem, Root)[1] = nil
             THEN /\ last'.had = nil
                  /\ last'.res = nil /\ ~last'.ok
                  /\ nodes' = nodes /\ rmem' = rmem
             ELSE /\ last'.ok
                  /\ last'.res = R(Mem, Root)[1] /\ last'.res = last'.had
                  /\ R(MemNext, Root)[1] = nil
                  /\ nodes' = nodes]_vars

C11_Witness ==
    /\ last.op = "Delete" /\ Bits(last.arg) = 0 /\ last.ok
    /\ Children(Mem, Root) # {}
    /\ nodes[Root].ref >= 2

\* C12: NewTable panics for every stride schedule that breaks a rule (at most
\* 16 strides, each but the last a multiple of 8, each at most 32, the sum 32
\* or 128) and for every other schedule returns a table of a root alone, with
\* every slot empty and ref 0.
C12_NewTableValidates ==
    last.op = "NewTable"
        => IF ValidStrides(last.arg)
           THEN /\ ~panicked
                /\ DOMAIN nodes = {Root}
                /\ OnlyRoot(Mem, Root)
                /\ \A b \in DOMAIN R(Mem, Root) : R(Mem, Root)[b] = nil
                /\ nodes[Root].ref = 0
           ELSE panicked

\* C13: right after c = t.Clone(), c has the tree shape of t, with equal r
\* contents and equal ref in the nodes that correspond, and Lookup on c
\* returns what Lookup on t returns, for every address.
C13_CloneEqualsOriginal ==
    last.op = "Clone"
        => /\ Shape(Mem, tables["c"]) = Shape(Mem, tables["t"])
           /\ Answers(Mem, tables["c"]) = Answers(Mem, tables["t"])

C13_Witness ==
    /\ last.op = "Clone"
    /\ Children(Mem, tables["t"]) # {}
    /\ tables["c"] # tables["t"]
    /\ \E ip \in Addrs : Answers(Mem, tables["c"])[ip] # nil

\* C14: Lookup leaves r, n, ref and parentPtr of every node as they were, so
\* a Lookup that follows a Lookup of the same address returns the same.
C14_LookupChangesNothing ==
    [][(last'.op = "Lookup")
          => /\ nodes' = nodes
             /\ rmem' = rmem
             /\ Answers(MemNext, tables[last'.tb]) = Answers(Mem, tables[last'.tb])
             /\ (last.op = "Lookup" /\ last.tb = last'.tb /\ last.arg = last'.arg)
                   => (last'.res = last.res /\ last'.ok = last.ok)]_vars

C14_Witness ==
    /\ last.op = "Lookup" /\ last.ok
    /\ Bits(IPPrefix(last.res)) > Strides[1]
    /\ budget <= MaxOps - 3

(***************************************************************************)
(* The nodes of a table and the routes in them                             *)
(***************************************************************************)
\* the nodes of the table of root x, through the n arrays
RECURSIVE Tree(_, _)
Tree(m, x) == {x} \cup UNION {Tree(m, m.nodes[x].n[i]) : i \in Children(m, x)}

\* the walk of insert and delete down to the node in whose stride the prefix
\* ends, and its base index there: x is nil where the walk meets no node
RECURSIVE Home(_, _, _, _, _, _, _)
Home(m, x, w, sl, ipp, level, ss0) ==
    IF level + 1 > Len(sl)
    THEN [x |-> NilNode, b |-> 0, level |-> level]
    ELSE
    LET ss == ss0 + sl[level + 1]
        s == getBits(w, ss, sl[level + 1], IP(ipp))
    IN  IF Bits(ipp) <= ss
        THEN [x |-> x, b |-> baseIndex(sl[level + 1], s, Bits(ipp) - ss0),
              level |-> level]
        ELSE LET i == fringeIndex(sl[level + 1], s)
             IN  IF m.nodes[x].n[i] = NilNode
                 THEN [x |-> NilNode, b |-> 0, level |-> level]
                 ELSE Home(m, m.nodes[x].n[i], w, sl, ipp, level + 1, ss)

HomeOf(m, x0, q) == Home(m, x0, TableW(Strides), Strides, IPPrefix(q), 0, 0)

\* the stored routes, the default route apart, whose prefix ends in node x
Entries(m, x0, S, x) == {q \in S : Bits(IPPrefix(q)) > 0 /\ HomeOf(m, x0, q).x = x}

\* C15: in every state reached by Insert and Delete, ref of every node is the
\* number of stored routes whose prefix ends in the node's stride plus the
\* number of its n slots that are not nil.
C15_RefCountsEntriesAndChildren ==
    \A x \in Tree(Mem, Root) :
        nodes[x].ref = Cardinality(Entries(Mem, Root, stored["t"], x))
                         + Cardinality(Children(Mem, x))

\* C16: after every Insert and Delete that has returned, no node other than
\* the root with ref = 0 can be reached from the root of the table: Delete
\* detaches each node whose ref it brings to 0, up to the root.
C16_NoUnreferencedNode ==
    (last.op \in {"Insert", "Delete"})
        => \A x \in Tree(Mem, tables[last.tb]) \ {tables[last.tb]} :
               nodes[x].ref # 0

\* C17: in every table, those that Clone returns included, parentPtr of each
\* node other than the root designates the slot, in the n array of its parent
\* in the same table, that points to the node.
C17_ParentPtrIsParentSlot ==
    \A tb \in {"t", "c"} :
        tables[tb] # NilNode
            => \A p \in Tree(Mem, tables[tb]) : \A i \in Children(Mem, p) :
                   nodes[nodes[p].n[i]].parentPtr = <<p, i>>

\* base index a is b or one of b >> 1, b >> 2, ...
RECURSIVE HeapAncestor(_, _)
HeapAncestor(a, b) == a >= 1 /\ (a = b \/ (b > 1 /\ HeapAncestor(a, Shr(b, 1))))

\* the stored routes of node x whose base index is b or above b in the heap
Above(m, x0, S, x, b) ==
    {q \in S : HomeOf(m, x0, q).x = x /\ HeapAncestor(HomeOf(m, x0, q).b, b)}

\* C18: every slot r[b] of every node is empty or holds the route of the
\* longest prefix among the routes stored in the node's stride with base index
\* b or a heap ancestor of b; no slot holds a route that is no longer stored.
C18_SlotHoldsLongestStored ==
    \A x \in Tree(Mem, Root) : \A b \in DOMAIN R(Mem, x) \ {0} :
        R(Mem, x)[b] # nil
            => /\ R(Mem, x)[b] \in Above(Mem, Root, stored["t"], x, b)
               /\ \A q \in Above(Mem, Root, stored["t"], x, b) :
                      Bits(IPPrefix(q)) <= Bits(IPPrefix(R(Mem, x)[b]))

\* 1 << w for the node x, whose arrays have 1 << (w + 1) slots
FringeStart(m, x) == Cardinality(DOMAIN R(m, x)) \div 2

RECURSIVE TreeAt(_, _, _)
TreeAt(m, x, level) ==
    {<<x, level>>}
        \cup UNION {TreeAt(m, m.nodes[x].n[i], level + 1) : i \in Children(m, x)}

\* C20: every route in a slot of a child node at depth k+1 has a prefix longer
\* than the bits of strides 0..k and no longer than those of strides 0..k+1,
\* and no node other than the root has a route in r[1].
C20_ChildRoutesWithinStride ==
    \A xl \in TreeAt(Mem, Root, 0) :
        xl[2] >= 1
            => /\ R(Mem, xl[1])[1] = nil
               /\ \A b \in DOMAIN R(Mem, xl[1]) :
                      R(Mem, xl[1])[b] # nil
                          => /\ Bits(IPPrefix(R(Mem, xl[1])[b])) > SumTo(Strides, xl[2])
                             /\ Bits(IPPrefix(R(Mem, xl[1])[b])) <= SumTo(Strides, xl[2] + 1)

C20_Witness ==
    /\ \E xl \in TreeAt(Mem, Root, 0) :
           xl[2] = 2 /\ \E b \in DOMAIN R(Mem, xl[1]) : R(Mem, xl[1])[b] # nil
    /\ \E xl \in TreeAt(Mem, Root, 0) :
           xl[2] = 1 /\ \E b \in DOMAIN R(Mem, xl[1]) : R(Mem, xl[1])[b] # nil
    /\ R(Mem, Root)[FringeStart(Mem, Root) + 10] # nil

\* C21: n[i] of a node of stride w is not nil only for a fringe index i, from
\* 2^w to 2^(w+1) - 1, and a node of the last stride has no child, so that
\* Lookup, Insert and Delete never index the strides past the last.
C21_ChildrenAtFringeOnly ==
    /\ ~panicked
    /\ \A xl \in TreeAt(Mem, Root, 0) :
           /\ \A i \in Children(Mem, xl[1]) :
                  i >= FringeStart(Mem, xl[1]) /\ i < 2 * FringeStart(Mem, xl[1])
           /\ xl[2] < Len(Strides)
           /\ xl[2] = Len(Strides) - 1 => Children(Mem, xl[1]) = {}

C21_Witness ==
    /\ last.op = "Lookup" /\ last.ok /\ Bits(IPPrefix(last.res)) = 32
    /\ \E xl \in TreeAt(Mem, Root, 0) :
           xl[2] = Len(Strides) - 1 /\ nodes[xl[1]].ref = 2

(***************************************************************************)
(* The single-level table of the paper's Figure 3                          *)
(***************************************************************************)
\* the array of 32 slots that holds route ra in the slots A, rb in the slots
\* B, rc in the slots C and nothing elsewhere
Figure(A, ra, B, rb, C, rc) ==
    [b \in Slots(SingleStrides[1]) |->
        IF b \in A THEN ra ELSE IF b \in B THEN rb ELSE IF b \in C THEN rc ELSE nil]

\* C22: on the empty table of one stride of 4, Insert (12,2) sets exactly
\* the slots 7, 14, 15, 28..31; then Insert (14,3) overwrites exactly 15, 30,
\* 31; then Insert (8,1) sets exactly 3, 6, 12, 13, 24..27, ref growing by 1
\* each time; then Delete (8,1) returns that route and leaves (12,2) in 7, 14,
\* 28, 29 and (14,3) in 15, 30, 31, every other slot empty and ref = 2.
C22_Figure3 ==
    /\ (order["t"] = <<route4b(12, 2)>> /\ budget = MaxSingleOps - 1)
          => /\ R(Mem, Root) = Figure({7, 14, 15, 28, 29, 30, 31}, route4b(12, 2),
                                      {}, nil, {}, nil)
             /\ nodes[Root].ref = 1
    /\ (order["t"] = <<route4b(12, 2), route4b(14, 3)>> /\ budget = MaxSingleOps - 2)
          => /\ R(Mem, Root) = Figure({7, 14, 28, 29}, route4b(12, 2),
                                      {15, 30, 31}, route4b(14, 3), {}, nil)
             /\ nodes[Root].ref = 2
    /\ (order["t"] = <<route4b(12, 2), route4b(14, 3), route4b(8, 1)>>
           /\ budget = MaxSingleOps - 3)
          => /\ R(Mem, Root) = Figure({7, 14, 28, 29}, route4b(12, 2),
                                      {15, 30, 31}, route4b(14, 3),
                                      {3, 6, 12, 13, 24, 25, 26, 27}, route4b(8, 1))
             /\ nodes[Root].ref = 3
    /\ (order["t"] = <<route4b(12, 2), route4b(14, 3), route4b(8, 1)>>
           /\ budget = MaxSingleOps - 4
           /\ last.op = "Delete" /\ last.arg = IPPrefix(route4b(8, 1)))
          => /\ last.ok /\ last.res = route4b(8, 1)
             /\ R(Mem, Root) = Figure({7, 14, 28, 29}, route4b(12, 2),
                                      {15, 30, 31}, route4b(14, 3), {}, nil)
             /\ nodes[Root].ref = 2

C22_Witness ==
    /\ order["t"] = <<route4b(12, 2), route4b(14, 3), route4b(8, 1)>>
    /\ budget = MaxSingleOps - 4
    /\ last.op = "Delete" /\ last.arg = IPPrefix(route4b(8, 1)) /\ last.ok

\* slot k lies in the heap below b, and b, k and the slots between them all
\* hold q
RECURSIVE Connected(_, _, _, _)
Connected(rr, b, k, q) ==
    IF k < b THEN FALSE
    ELSE rr[k] = q /\ (k = b \/ Connected(rr, b, Shr(k, 1), q))

\* C23: allot(2^w, b, old, new) changes only slots of r in the heap below b
\* that are joined to b by slots all equal to old, and sets these to new;
\* it does nothing when r[b] differs from old, and leaves n, ref and every
\* other node as they were.
C23_AllotFrame ==
    [][(last'.op = "allot")
          => /\ \A k \in DOMAIN R(Mem, Root) :
                    IF Connected(R(Mem, Root), last'.arg[1], k, last'.arg[2])
                    THEN R(MemNext, Root)[k] = last'.arg[3]
                    ELSE R(MemNext, Root)[k] = R(Mem, Root)[k]
             /\ (R(Mem, Root)[last'.arg[1]] # last'.arg[2]) => rmem' = rmem
             /\ nodes' = nodes
             /\ \A a \in DOMAIN rmem \ {nodes[Root].r} : rmem'[a] = rmem[a]]_vars

C23_Witness ==
    /\ last.op = "allot"
    /\ \E k \in DOMAIN R(Mem, Root) : R(Mem, Root)[k] # last.res[k]
    /\ \E k \in DOMAIN R(Mem, Root) :
           /\ k > last.arg[1] /\ HeapAncestor(last.arg[1], k)
           /\ last.res[k] # last.arg[2]
           /\ R(Mem, Root)[k] = last.res[k]

(***************************************************************************)
(* baseIndex and fringeIndex                                               *)
(***************************************************************************)
\* v >= 2^k and v < 2^k for a v below 2^31
AtLeastPow2(v, k) == IF k >= 31 THEN FALSE ELSE v >= 2 ^ k
BelowPow2(v, k) == IF k >= 31 THEN TRUE ELSE v < 2 ^ k

\* C24: for every stride width w from 1 to 32, prefix length plen in 0..w
\* and addr below 2^w, baseIndex(w, addr, plen) is (addr >> (w - plen)) |
\* 2^plen and lies in [1, 2^(w+1)); fringeIndex(w, addr) lies in
\* [2^w, 2^(w+1)) and is never 0.
C24_BaseIndexInRange ==
    /\ (last.op = "baseIndex")
          => /\ AtLeastPow2(last.res, last.arg[3])
             /\ last.res - 2 ^ last.arg[3] = Shr(last.arg[2], last.arg[1] - last.arg[3])
             /\ last.res >= 1
             /\ BelowPow2(last.res, last.arg[1] + 1)
    /\ (last.op = "fringeIndex")
          => /\ last.res # 0
             /\ AtLeastPow2(last.res, last.arg[1])
             /\ BelowPow2(last.res, last.arg[1] + 1)

(***************************************************************************)
(* The loops and the recursion, counted                                    *)
(***************************************************************************)
Max(a, b) == IF a >= b THEN a ELSE b

\* allot that goes on below the first fringe index
RECURSIVE allotCostPastFringe(_, _, _, _, _)
allotCostPastFringe(rr, smallestFringeIndex, b, q, r) ==
    IF b \notin DOMAIN rr
    THEN [r |-> rr, panic |-> TRUE, visits |-> 0, depth |-> 1]
    ELSE IF rr[b] = nil /\ q # nil
    THEN [r |-> rr, panic |-> TRUE, visits |-> 1, depth |-> 1]
    ELSE IF (rr[b] = nil /\ q = nil) \/ (rr[b] # nil /\ Equals(rr[b], q))
    THEN LET r1 == [rr EXCEPT ![b] = r]
         IN  IF b > smallestFringeIndex
             THEN [r |-> r1, panic |-> FALSE, visits |-> 1, depth |-> 1]
             ELSE LET left == allotCostPastFringe(r1, smallestFringeIndex, 2 * b, q, r)
                      right == allotCostPastFringe(left.r, smallestFringeIndex,
                                                   2 * b + 1, q, r)
                  IN  IF left.panic
                      THEN [left EXCEPT !.visits = @ + 1, !.depth = @ + 1]
                      ELSE [r |-> right.r, panic |-> right.panic,
                            visits |-> 1 + left.visits + right.visits,
                            depth |-> 1 + Max(left.depth, right.depth)]
    ELSE [r |-> rr, panic |-> FALSE, visits |-> 1, depth |-> 1]

\* allot with its calls counted: visits is the number of slots x.r[b] read,
\* depth the deepest nesting of the calls; an index past the array panics
RECURSIVE allotCost(_, _, _, _, _)
allotCost(rr, smallestFringeIndex, b, q, r) ==
    IF b \notin DOMAIN rr
    THEN [r |-> rr, panic |-> TRUE, visits |-> 0, depth |-> 1]
    ELSE IF rr[b] = nil /\ q # nil
    THEN [r |-> rr, panic |-> TRUE, visits |-> 1, depth |-> 1]
    ELSE IF (rr[b] = nil /\ q = nil) \/ (rr[b] # nil /\ Equals(rr[b], q))
    THEN LET r1 == [rr EXCEPT ![b] = r]
         IN  IF b >= smallestFringeIndex
             THEN [r |-> r1, panic |-> FALSE, visits |-> 1, depth |-> 1]
             ELSE LET left == allotCost(r1, smallestFringeIndex, 2 * b, q, r)
                      right == allotCost(left.r, smallestFringeIndex, 2 * b + 1, q, r)
                  IN  IF left.panic
                      THEN [left EXCEPT !.visits = @ + 1, !.depth = @ + 1]
                      ELSE [r |-> right.r, panic |-> right.panic,
                            visits |-> 1 + left.visits + right.visits,
                            depth |-> 1 + Max(left.depth, right.depth)]
    ELSE [r |-> rr, panic |-> FALSE, visits |-> 1, depth |-> 1]

\* the level at which the loop of searchMultiLevel returns: Len(sl) where it
\* goes past the last stride
RECURSIVE searchLevel(_, _, _, _, _, _, _)
searchLevel(m, x, w, sl, ip, level, ss0) ==
    IF level + 1 > Len(sl) THEN level
    ELSE LET s == sl[level + 1]
             ss == ss0 + s
             i == fringeIndex(s, getBits(w, ss, s, ip))
         IN  IF m.nodes[x].n[i] # NilNode
             THEN searchLevel(m, m.nodes[x].n[i], w, sl, ip, level + 1, ss)
             ELSE level

\* the array of node x before a call that may have made the node
RBefore(x, stride) == IF x \in DOMAIN nodes THEN R(Mem, x) ELSE newRouteArray(stride)

\* the call x.allot(1 << w, b, q, r) on the array rr reads at most
\* 2^(w+1) - 1 slots, its calls nested at most w + 1 deep, and leaves rr2
AllotBounded(rr, w, b, q, r, rr2) ==
    \E c \in {allotCost(rr, Shl1(w), b, q, r)} :
        /\ ~c.panic
        /\ c.r = rr2
        /\ c.visits <= Shl1(w + 1) - 1
        /\ c.depth <= w + 1

\* the array of node x after the call; res where the call has freed the node
RAfter(x, res) == IF x \in DOMAIN nodes' THEN R(MemNext, x) ELSE res

InsertBounded(r) ==
    \E h \in {Home(MemNext, Root, TableW(Strides), Strides, IPPrefix(r), 0, 0)} :
        /\ h.level < Len(Strides)
        /\ (last'.ok /\ Bits(IPPrefix(r)) > 0)
              => AllotBounded(RBefore(h.x, Strides[h.level + 1]), Strides[h.level + 1],
                              h.b, RBefore(h.x, Strides[h.level + 1])[h.b], r,
                              R(MemNext, h.x))

DeleteBounded(ipp) ==
    \E h \in {Home(Mem, Root, TableW(Strides), Strides, ipp, 0, 0)} :
        /\ h.level < Len(Strides)
        /\ (last'.ok /\ Bits(ipp) > 0)
              => AllotBounded(R(Mem, h.x), Strides[h.level + 1], h.b,
                              R(Mem, h.x)[h.b], R(Mem, h.x)[Shr(h.b, 1)],
                              RAfter(h.x, allot(R(Mem, h.x), Shl1(Strides[h.level + 1]), h.b,
                                                R(Mem, h.x)[h.b], R(Mem, h.x)[Shr(h.b, 1)]).r))

\* C25: Lookup, Insert and Delete each return after at most as many turns
\* of their loop as there are strides, and each call of allot they make reads
\* at most 2^(w+1) - 1 slots, with its calls nested at most w + 1 deep.
C25_LoopsAndAllotBounded ==
    [][/\ last'.op \in {"Lookup", "Insert", "Delete"} => ~panicked'
       /\ last'.op = "Lookup"
             => searchLevel(Mem, Root, TableW(Strides), Strides, last'.arg, 0, 0)
                   < Len(Strides)
       /\ last'.op = "Insert" => InsertBounded(last'.arg)
       /\ last'.op = "Delete" => DeleteBounded(last'.arg)]_vars

C25_Witness ==
    /\ last.op = "Delete" /\ last.ok /\ Bits(last.arg) = 32
    /\ searchLevel(Mem, Root, TableW(Strides), Strides, IP4(10, 0, 0, 1), 0, 0)
           = Len(Strides) - 1
    /\ R(Mem, Home(Mem, Root, TableW(Strides), Strides, last.arg, 0, 0).x)[2] # nil

\* C26: after any Insert and Delete the root of the table is the node that
\* NewTable made, attached to no parent, also when root.ref has come to 0.
C26_RootStays ==
    [][(last'.op \in {"Insert", "Delete"})
          => /\ tables'["t"] = tables["t"]
             /\ tables["t"] \in DOMAIN nodes'
             /\ nodes'[tables["t"]].parentPtr = nil
             /\ nodes'[tables["t"]].r = nodes[tables["t"]].r
             /\ DOMAIN nodes'[tables["t"]].n = DOMAIN nodes[tables["t"]].n]_vars

C26_Witness ==
    /\ last.op = "Delete" /\ last.ok /\ Bits(last.arg) > Strides[1]
    /\ nodes[Root].ref = 0
    /\ OnlyRoot(Mem, Root)
    /\ Root = NewTable(EmptyMem, Strides).id

\* the children of p that the call has made
NewChildren(p) ==
    {f \in Children(MemNext, p) : p \notin DOMAIN nodes \/ nodes[p].n[f] = NilNode}

\* C27: a child that Insert makes at the fringe slot f of a node of level k
\* has r and n of 2^(S[k+1]+1) slots, the width of the next stride, is put in
\* n[f] with parentPtr set to that slot, and adds 1 to the ref of the parent;
\* a child that is there is used as it is, the parent's ref staying.
C27_ChildOfNextStride ==
    [][(last'.op = "Insert")
          => \A pk \in TreeAt(MemNext, Root, 0) :
                /\ nodes'[pk[1]].ref
                      = (IF pk[1] \in DOMAIN nodes THEN nodes[pk[1]].ref ELSE 0)
                          + Cardinality(NewChildren(pk[1]))
                          + (IF /\ last'.ok /\ Bits(IPPrefix(last'.arg)) > 0
                                /\ Home(MemNext, Root, TableW(WideStrides), WideStrides,
                                        IPPrefix(last'.arg), 0, 0).x = pk[1]
                             THEN 1 ELSE 0)
                /\ \A f \in NewChildren(pk[1]) :
                      /\ nodes'[pk[1]].n[f] \notin DOMAIN nodes
                      /\ f >= Shl1(WideStrides[pk[2] + 1])
                      /\ DOMAIN R(MemNext, nodes'[pk[1]].n[f]) = Slots(WideStrides[pk[2] + 2])
                      /\ DOMAIN nodes'[nodes'[pk[1]].n[f]].n = Slots(WideStrides[pk[2] + 2])
                      /\ nodes'[nodes'[pk[1]].n[f]].parentPtr = <<pk[1], f>>
                /\ pk[1] \in DOMAIN nodes
                      => \A f \in Children(Mem, pk[1]) :
                             nodes'[pk[1]].n[f] = nodes[pk[1]].n[f]]_vars

C27_Witness ==
    /\ last.op = "Insert" /\ last.ok /\ Bits(IPPrefix(last.arg)) = 32
    /\ budget = MaxWideOps - 2
    /\ \E pk \in TreeAt(Mem, Root, 0), qk \in TreeAt(Mem, Root, 0) :
           /\ pk[2] = 3 /\ qk[2] = 4
           /\ nodes[pk[1]].n[1] = qk[1]
           /\ nodes[pk[1]].ref = 1 /\ nodes[qk[1]].ref = 2
           /\ Cardinality(DOMAIN R(Mem, pk[1])) = 2
           /\ Cardinality(DOMAIN R(Mem, qk[1])) = Shl1(WideStrides[5] + 1)

\* C28: once the default route has been deleted, no slot of the root's r
\* holds it and no Lookup returns it, whatever Inserts and Deletes of other
\* prefixes were made while it was stored.
C28_DeletedDefaultIsGone ==
    /\ \A b \in DOMAIN R(Mem, Root) :
          (R(Mem, Root)[b] # nil /\ Bits(IPPrefix(R(Mem, Root)[b])) = 0)
              => R(Mem, Root)[b] \in stored["t"]
    /\ (last.op = "Lookup" /\ last.res # nil /\ Bits(IPPrefix(last.res)) = 0)
          => last.res \in stored["t"]

\* C29: in every state reached by Insert and Delete calls, successful or not,
\* ref of every node is at least 0.
C29_RefNeverNegative ==
    \A x \in DOMAIN nodes : nodes[x].ref >= 0

\* the nodes of the table that the call has detached
Detached == Tree(Mem, Root) \ Tree(MemNext, Root)

\* C30: a node that Delete detaches holds no stored route and no child, so
\* Delete of a prefix that was inserted and not deleted since returns its
\* route and true, whatever calls were made on other prefixes.
C30_StoredRouteIsNeverLost ==
    [][(last'.op = "Delete" /\ last'.tb = "t")
          => /\ \A x \in Detached :
                   /\ Entries(Mem, Root, stored'["t"], x) = {}
                   /\ \A i \in Children(Mem, x) : nodes[x].n[i] \in Detached
             /\ (last'.had # nil) => (last'.ok /\ last'.res = last'.had)]_vars

\* C31: allot never calls Equals on an empty slot: no Insert and no Delete
\* stops on a nil dereference, every slot that allot comes to with a route q
\* to replace holding a route, since below a slot that holds a route (r[1],
\* the slot of the default route, apart) no slot is empty.
C31_AllotNeverDereferencesNil ==
    /\ ~panicked
    /\ \A x \in DOMAIN nodes : \A b \in DOMAIN R(Mem, x) :
          (b >= 2 /\ 2 * b + 1 \in DOMAIN R(Mem, x) /\ R(Mem, x)[b] # nil)
              => (R(Mem, x)[2 * b] # nil /\ R(Mem, x)[2 * b + 1] # nil)

C31_Witness ==
    /\ last.op = "Delete" /\ last.ok /\ last.had # nil
    /\ Bits(last.arg) = 9
    /\ \E q \in stored["t"] : Bits(IPPrefix(q)) = 10
    /\ \E q \in stored["t"] : Bits(IPPrefix(q)) = 1
    /\ ~panicked

\* the base indices that the stored routes own in node x
Owned(m, x0, S, x) == {HomeOf(m, x0, q).b : q \in Entries(m, x0, S, x)}

AddrBit(from, i) == (from[(i \div 8) + 1] \div (2 ^ (7 - (i % 8)))) % 2

\* the number that the width bits from position off on spell
RECURSIVE BitsAt(_, _, _)
BitsAt(from, off, width) ==
    IF width = 0 THEN 0
    ELSE 2 * BitsAt(from, off, width - 1) + AddrBit(from, off + width - 1)

\* C33: for strides that are multiples of 8, at most 32 and sum to the
\* address width, the value that getBits4 and getBits16 give at level k is
\* the S[k] bits of the address from position S[0]+...+S[k-1] on, counted
\* from the most significant bit, a number below 2^S[k]; insert, delete and
\* searchMultiLevel get it by the same closure.
C33_GetBitsIsStrideOfAddress ==
    (last.op \in {"getBits4", "getBits16"})
        => /\ last.res = BitsAt(last.arg[3], SumTo(last.arg[1], last.arg[2] - 1),
                                last.arg[1][last.arg[2]])
           /\ last.res >= 0
           /\ BelowPow2(last.res, last.arg[1][last.arg[2]])

C33_Witness ==
    /\ last.op = "getBits16"
    /\ last.arg[1] = <<8, 16, 24, 32, 8, 16, 24>> /\ last.arg[2] = 3
    /\ last.res = 184 * 65536 + 127 * 256 + 255

====
